---- MODULE Spec2Model ----
(***************************************************************************)
(* A model of the HTML component loader (src/src/index.js): the three      *)
(* passes links(), domModule() and scripts() of ProcessHtml.process(),     *)
(* the text they write and the source-map mappings they record.            *)
(*                                                                         *)
(* Text is a sequence of one-character strings.  The fixed pieces of the   *)
(* emitted statements and of the markup (which hold no line break and no   *)
(* quote that matters) are kept as one element each; Width gives their     *)
(* length in characters.                                                   *)
(***************************************************************************)
EXTENDS Integers, Sequences, FiniteSets, TLC

VARIABLES doc, options, pc, links, doms, source, lineOffset, idx,
          sourceMapGenerator, retVal

vars == <<doc, options, pc, links, doms, source, lineOffset, idx,
          sourceMapGenerator, retVal>>

\* The largest number of nodes of a document.
MaxNodes == 3

NL == "\n"
BS == "\\"
SQ == "'"

----------------------------------------------------------------------------
(* Text helpers *)

RECURSIVE Concat(_)
Concat(ss) == IF ss = <<>> THEN <<>> ELSE Head(ss) \o Concat(Tail(ss))

\* The number of line breaks of a text.
LineBreaks(t) == Cardinality({i \in 1..Len(t) : t[i] = NL})

RECURSIVE Width(_)
Width(t) == IF t = <<>> THEN 0 ELSE Len(Head(t)) + Width(Tail(t))

\* The index of the last line break of t, 0 when there is none.
LastBreak(t) ==
  IF \E i \in 1..Len(t) : t[i] = NL
  THEN CHOOSE i \in 1..Len(t) : t[i] = NL /\ \A j \in (i+1)..Len(t) : t[j] # NL
  ELSE 0

\* String.prototype.indexOf(sub) >= 0
Includes(s, sub) ==
  \E i \in 0..(Len(s) - Len(sub)) : SubSeq(s, i + 1, i + Len(sub)) = sub

IsWhitespace(c) == c \in {" ", NL}

----------------------------------------------------------------------------
(* The document: the nodes of the parsed tree in document order.  A node   *)
(* is a link, a script, a dom-module element (directly under the root, or  *)
(* inside a div of its own), a run of text or a pre element.               *)

Node(tag, attr, tagBreaks, body, endTag, wrapped) ==
  [tag |-> tag, attr |-> attr, tagBreaks |-> tagBreaks, body |-> body,
   endTag |-> endTag, wrapped |-> wrapped]

Hrefs == {<<>>, <<"a">>, <<"a", "b">>, <<"c", NL>>}

Srcs == {<<"h", ":", "/", "/", "a">>, <<"h", ":", "a">>, <<"a">>}

LinkNodes == {Node("link", h, 0, <<>>, FALSE, FALSE) : h \in Hrefs}

SrcScriptNodes == {Node("script", s, 0, <<>>, TRUE, FALSE) : s \in Srcs}

InlineScriptNodes ==
  {Node("script", <<>>, 0, <<"a">>, TRUE, FALSE),
   Node("script", <<>>, 0, <<NL, "a", " ", "b", NL, "b", NL>>, TRUE, FALSE),
   Node("script", <<>>, 1, <<"a", NL, "b">>, TRUE, FALSE),
   Node("script", <<>>, 0, <<>>, TRUE, FALSE),
   Node("script", <<>>, 0, <<"a">>, FALSE, FALSE)}

DomNodes == {Node("dom-module", <<>>, 0, <<>>, TRUE, w) : w \in BOOLEAN}

TextNodes ==
  {Node("text", <<>>, 0, b, FALSE, FALSE) :
     b \in {<<BS, SQ>>, <<"x", NL, " ", "x">>}}
  \cup {Node("pre", <<>>, 0, <<"x", NL, "x">>, TRUE, FALSE)}

Nodes == LinkNodes \cup SrcScriptNodes \cup InlineScriptNodes \cup DomNodes \cup TextNodes

\* A script whose end tag is missing takes the rest of the input as its
\* text, so it is the last node of its document.
WellFormed(d) ==
  \A i \in 1..Len(d) : (d[i].tag = "script" /\ ~d[i].endTag) => i = Len(d)

Documents ==
  {d \in UNION {[1..n -> Nodes] : n \in 0..MaxNodes} : WellFormed(d)}

\* The start tag of a node as it stands in the input.
StartTag(n) ==
  CASE n.tag = "link" ->
         <<"<link rel=import">>
           \o (IF n.attr = <<>> THEN <<>> ELSE <<" href=\"">> \o n.attr \o <<"\"">>)
           \o <<">">>
    [] n.tag = "script" ->
         <<"<script">>
           \o (IF n.tagBreaks = 1 THEN <<NL, "defer">> ELSE <<>>)
           \o (IF n.attr = <<>> THEN <<>> ELSE <<" src=\"">> \o n.attr \o <<"\"">>)
           \o <<">">>
    [] n.tag = "dom-module" ->
         (IF n.wrapped THEN <<"<div>">> ELSE <<>>) \o <<"<dom-module>">>
    [] n.tag = "pre" -> <<"<pre>">>
    [] OTHER -> <<>>

EndTag(n) ==
  CASE n.tag = "script" -> IF n.endTag THEN <<"</script>">> ELSE <<>>
    [] n.tag = "dom-module" ->
         <<"</dom-module>">> \o (IF n.wrapped THEN <<"</div>">> ELSE <<>>)
    [] n.tag = "pre" -> <<"</pre>">>
    [] OTHER -> <<>>

Markup(n) == StartTag(n) \o n.body \o EndTag(n)

\* this.content: the text of the input file.
Content(d) == Concat([i \in 1..Len(d) |-> Markup(d[i])])

\* The input before node i.
Before(d, i) == Concat([j \in 1..(i - 1) |-> Markup(d[j])])

----------------------------------------------------------------------------
(* The location information the parser attaches to a script node: lines    *)
(* and columns count from 1.                                               *)

\* scriptNode.__location.startTag.line
StartTagLine(d, i) == 1 + LineBreaks(Before(d, i))

\* scriptNode.__location.endTag: absent when the input has no end tag.
HasEndTag(d, i) == d[i].endTag

\* scriptNode.__location.endTag.line
EndTagLine(d, i) == 1 + LineBreaks(Before(d, i) \o StartTag(d[i]) \o d[i].body)

\* scriptNode.childNodes: the text node of a script, none when it is empty.
HasChild(d, i) == d[i].body # <<>>

\* scriptNode.childNodes[0].__location.line
ChildLine(d, i) == 1 + LineBreaks(Before(d, i) \o StartTag(d[i]))

\* scriptNode.childNodes[0].__location.col
ChildCol(d, i) ==
  LET p == Before(d, i) \o StartTag(d[i])
  IN  1 + Width(SubSeq(p, LastBreak(p) + 1, Len(p)))

----------------------------------------------------------------------------
(* Paths and URLs *)

\* loader.resourcePath
currentFilePath == <<"/", "p", "/", "f">>

\* osPath.dirname
Dirname(p) ==
  LET slashes == {i \in 1..Len(p) : p[i] = "/"}
  IN  IF slashes = {} THEN <<".">>
      ELSE LET last == CHOOSE i \in slashes : \A j \in slashes : j <= i
           IN  IF last = 1 THEN <<"/">> ELSE SubSeq(p, 1, last - 1)

\* The normalisation osPath.join applies: a run of separators becomes one.
RECURSIVE Normalize(_)
Normalize(p) ==
  IF Len(p) < 2 THEN p
  ELSE IF p[1] = "/" /\ p[2] = "/" THEN Normalize(Tail(p))
  ELSE <<p[1]>> \o Normalize(Tail(p))

\* osPath.join(a, b)
Join(a, b) == IF b = <<>> THEN Normalize(a) ELSE Normalize(a \o <<"/">> \o b)

Letters == {"a", "b", "c", "h", "p", "f", "x"}

\* url.parse(src): the scheme with its colon, and whether "//" follows it.
UrlParse(src) ==
  LET ends == {k \in 2..Len(src) :
                 src[k] = ":" /\ \A j \in 1..(k - 1) : src[j] \in Letters}
      k == IF ends = {} THEN 0 ELSE CHOOSE e \in ends : TRUE
  IN  [protocol |-> IF k = 0 THEN <<>> ELSE SubSeq(src, 1, k),
       slashes  |-> k # 0 /\ Len(src) >= k + 2
                    /\ src[k + 1] = "/" /\ src[k + 2] = "/"]

\* `\nimport '${path}';\n`
ImportStatement(path) == <<NL, "import ", SQ>> \o path \o <<SQ, ";", NL>>

----------------------------------------------------------------------------
(* links() *)

\* loaderUtils.getOptions(loader) || {}: every option defaults to [].
DefaultOptions ==
  [ignoreLinks |-> {}, ignoreLinksFromPartialMatches |-> {}, ignorePathReWrite |-> {}]

OptionBags ==
  [ignoreLinks : {{}, {<<"a">>}},
   ignoreLinksFromPartialMatches : {{}, {<<"b">>}},
   ignorePathReWrite : {{}, {<<"a">>}}]

\* queryAll(doc, pred): the indices of the nodes with this tag, in order.
QueryAll(d, tag) ==
  LET F[i \in 0..Len(d)] ==
        IF i = 0 THEN <<>>
        ELSE IF d[i].tag = tag THEN Append(F[i - 1], i) ELSE F[i - 1]
  IN  F[Len(d)]

\* links() with the re-write test made against ignoreLinks.
LinkPathByIgnoreLinks(href, opts) ==
  LET checkIgnorePaths ==
        {ignorePath \in opts.ignoreLinks : Includes(href, ignorePath)}
  IN  IF checkIgnorePaths = {} THEN Join(Dirname(currentFilePath), href) ELSE href

\* The path links() imports for a non-empty href.
LinkPath(href, opts) ==
  LET checkIgnorePaths ==
        {ignorePath \in opts.ignorePathReWrite : Includes(href, ignorePath)}
  IN  IF checkIgnorePaths = {} THEN Join(Dirname(currentFilePath), href) ELSE href

\* links() without the test of ignoreLinksFromPartialMatches.
LinkEmittedExactOnly(href, opts) == href # <<>> /\ href \notin opts.ignoreLinks

\* Whether links() writes an import for this href.
LinkEmitted(href, opts) ==
  LET ignoredFromPartial ==
        {partial \in opts.ignoreLinksFromPartialMatches : Includes(href, partial)}
  IN  href # <<>> /\ href \notin opts.ignoreLinks /\ ignoredFromPartial = {}

\* The body of links.forEach for one link node.
LinkStep(acc, linkNode, opts) ==
  LET href == linkNode.attr
  IN  IF LinkEmitted(href, opts)
      THEN [source    |-> acc.source \o ImportStatement(LinkPath(href, opts)),
            lineCount |-> acc.lineCount + 2]
      ELSE acc

Links(d, opts) ==
  LET ls == QueryAll(d, "link")
      F[i \in 0..Len(ls)] ==
        IF i = 0 THEN [source |-> <<>>, lineCount |-> 0]
        ELSE LinkStep(F[i - 1], d[ls[i]], opts)
  IN  F[Len(ls)]

----------------------------------------------------------------------------
(* domModule() *)

\* A script is external when its src has a scheme and "//" after it.
IsExternal(src) ==
  src # <<>> /\ UrlParse(src).protocol # <<>> /\ UrlParse(src).slashes

\* The nodes domModule() removes from its tree: the scripts that are not
\* external, and every link.
Removed(n) ==
  \/ n.tag = "script" /\ ~IsExternal(n.attr)
  \/ n.tag = "link"

\* parse5.serialize of one node of the tree (the serializer writes a start
\* tag on one line and always closes a script).
Serialize(n) ==
  CASE n.tag = "script" ->
         <<"<script">>
           \o (IF n.tagBreaks = 1 THEN <<" ", "defer=\"\"">> ELSE <<>>)
           \o (IF n.attr = <<>> THEN <<>> ELSE <<" src=\"">> \o n.attr \o <<"\"">>)
           \o <<">">> \o n.body \o <<"</script>">>
    [] OTHER -> Markup(n)

\* query(doc, domPred): the first dom-module node, 0 when there is none.
QueryDomModule(d) ==
  LET ds == QueryAll(d, "dom-module") IN IF ds = <<>> THEN 0 ELSE ds[1]

\* parse5.serialize(html) after the removals: html is the parent of the
\* first dom-module node when there is one, and the document otherwise.
SerializeHtml(d) ==
  LET domModule == QueryDomModule(d)
  IN  IF domModule # 0 /\ d[domModule].wrapped
      THEN <<"<dom-module>", "</dom-module>">>
      ELSE Concat([i \in 1..Len(d) |->
                     IF Removed(d[i]) THEN <<>> ELSE Serialize(d[i])])

\* minify(html, {collapseWhitespace, conservativeCollapse, ...}): a run of
\* white space becomes one space, except inside a pre element.
RECURSIVE MinifyFrom(_, _, _)
MinifyFrom(t, inPre, afterSpace) ==
  IF t = <<>> THEN <<>>
  ELSE LET c == Head(t)
       IN  IF inPre THEN <<c>> \o MinifyFrom(Tail(t), c # "</pre>", FALSE)
           ELSE IF IsWhitespace(c)
                THEN (IF afterSpace THEN <<>> ELSE <<" ">>)
                       \o MinifyFrom(Tail(t), FALSE, TRUE)
                ELSE <<c>> \o MinifyFrom(Tail(t), c = "<pre>", FALSE)

Minify(t) == MinifyFrom(t, FALSE, FALSE)

\* minimized.replace(/'/g, "\\'")
RECURSIVE EscapeQuotes(_)
EscapeQuotes(t) ==
  IF t = <<>> THEN <<>>
  ELSE (IF Head(t) = SQ THEN <<BS, SQ>> ELSE <<Head(t)>>) \o EscapeQuotes(Tail(t))

RequireLine ==
  <<"const RegisterHtmlTemplate = require(", SQ,
    "polymer-webpack-loader/register-html-template", SQ, ");">>

\* The statement domModule() writes: method is register or toBody.
Registration(method, minimized) ==
  <<NL>> \o RequireLine \o <<NL, method, SQ>>
    \o EscapeQuotes(minimized) \o <<SQ, ");", NL>>

Register == "RegisterHtmlTemplate.register("
ToBody == "RegisterHtmlTemplate.toBody("

\* domModule() registering twice: once for each of two dom-module nodes.
DomModulePerNode(d) ==
  LET minimized == Minify(SerializeHtml(d))
      one == Registration("RegisterHtmlTemplate.register(", minimized)
  IN  IF minimized = <<>> THEN [source |-> <<>>, lineCount |-> 0]
      ELSE IF Len(QueryAll(d, "dom-module")) > 1
           THEN [source |-> one \o one, lineCount |-> 6]
           ELSE IF Len(QueryAll(d, "dom-module")) = 1
                THEN [source |-> one, lineCount |-> 3]
                ELSE [source |-> Registration("RegisterHtmlTemplate.toBody(", minimized),
                      lineCount |-> 3]

DomModule(d) ==
  LET domModule == QueryDomModule(d)
      minimized == Minify(SerializeHtml(d))
  IN  IF minimized # <<>>
      THEN IF domModule # 0
           THEN [source |-> Registration(Register, minimized), lineCount |-> 3]
           ELSE [source |-> Registration(ToBody, minimized), lineCount |-> 3]
      ELSE [source |-> <<>>, lineCount |-> 0]

----------------------------------------------------------------------------
(* scripts() *)

\* espree.tokenize(scriptContents, {loc: true}): one token for each run of
\* characters that are not white space; line counts from 1, column from 0.
Tokenize(text) ==
  LET starts == {i \in 1..Len(text) :
                   ~IsWhitespace(text[i]) /\ (i = 1 \/ IsWhitespace(text[i - 1]))}
      stop(i) == CHOOSE j \in i..Len(text) :
                   /\ \A k \in i..j : ~IsWhitespace(text[k])
                   /\ (j = Len(text) \/ IsWhitespace(text[j + 1]))
      F[i \in 0..Len(text)] ==
        IF i = 0 THEN <<>>
        ELSE IF i \in starts
             THEN Append(F[i - 1],
                    [type   |-> "Identifier",
                     value  |-> SubSeq(text, i, stop(i)),
                     line   |-> 1 + LineBreaks(SubSeq(text, 1, i - 1)),
                     column |-> i - 1 - LastBreak(SubSeq(text, 1, i - 1))])
             ELSE F[i - 1]
  IN  F[Len(text)]

\* The mapping scripts() adds for one token of the inline script at node i.
Mapping(d, i, token, offset) ==
  LET currentScriptLineOffset == ChildLine(d, i) - 1
      firstLineCharOffset == ChildCol(d, i)
  IN  [original  |-> [line   |-> token.line + currentScriptLineOffset,
                      column |-> token.column
                                   + (IF token.line = 1 THEN firstLineCharOffset ELSE 0)],
       generated |-> [line |-> token.line + offset, column |-> token.column],
       source    |-> currentFilePath,
       name      |-> IF token.type = "Identifier" THEN token.value ELSE <<>>]

\* The mappings of all the tokens of the inline script at node i.
Mappings(d, i, offset) ==
  LET tokens == Tokenize(d[i].body)
  IN  [k \in 1..Len(tokens) |-> Mapping(d, i, tokens[k], offset)]

\* The offset advanced by the line breaks of the script's text alone.
InlineLinesOfText(d, i) == 2 + LineBreaks(d[i].body)

\* The lines an inline script adds to the running offset.
InlineLines(d, i) == 2 + (EndTagLine(d, i) - StartTagLine(d, i))

\* Whether handling the inline script at node i throws a TypeError: it has
\* no child node to read a location from, or no end tag location.
InlineThrows(d, i) == ~HasChild(d, i) \/ ~HasEndTag(d, i)

----------------------------------------------------------------------------
(* process(): links(), then domModule(), then scripts() node by node *)

NoSourceMap ==
  [present |-> FALSE, mappings |-> <<>>, sources |-> <<>>, sourcesContent |-> <<>>]

\* A source map returned whether or not an inline script was seen.
FinalSourceMapAlways(generator, d) ==
  [present        |-> TRUE,
   mappings       |-> generator.mappings,
   sources        |-> <<currentFilePath>>,
   sourcesContent |-> <<Content(d)>>]

\* retVal.sourceMap: sourceMapGenerator.toJSON() after setSourceContent,
\* when a generator was made.
FinalSourceMap(generator, d) ==
  IF generator.created
  THEN [present        |-> TRUE,
        mappings       |-> generator.mappings,
        sources        |-> <<currentFilePath>>,
        sourcesContent |-> <<Content(d)>>]
  ELSE NoSourceMap

NoFragment == [source |-> <<>>, lineCount |-> 0]

\* queryAll(doc, scriptsPred) in scripts()
Scripts == QueryAll(doc, "script")

\* The node scripts.forEach is at.
scriptNode == Scripts[idx]

\* The state when process() is entered.  The options matter to the link
\* nodes alone: option bags other than the default are tried with the
\* documents that hold at most one node that is not a link.
Init ==
  /\ doc \in Documents
  /\ options \in OptionBags
  /\ options # DefaultOptions => Len(QueryAll(doc, "link")) >= Len(doc) - 1
  /\ pc = "links"
  /\ links = NoFragment
  /\ doms = NoFragment
  /\ source = <<>>
  /\ lineOffset = 0
  /\ idx = 0
  /\ sourceMapGenerator = [created |-> FALSE, mappings |-> <<>>]
  /\ retVal = [source |-> <<>>, sourceMap |-> NoSourceMap]

\* const links = this.links();
RunLinks ==
  /\ pc = "links"
  /\ links' = Links(doc, options)
  /\ pc' = "domModule"
  /\ UNCHANGED <<doc, options, doms, source, lineOffset, idx, sourceMapGenerator, retVal>>

\* const doms = this.domModule(); and the entry of scripts(links.source +
\* doms.source, links.lineCount + doms.lineCount)
RunDomModule ==
  /\ pc = "domModule"
  /\ doms' = DomModule(doc)
  /\ source' = links.source \o doms'.source
  /\ lineOffset' = links.lineCount + doms'.lineCount
  /\ idx' = 1
  /\ pc' = "scripts"
  /\ UNCHANGED <<doc, options, links, sourceMapGenerator, retVal>>

\* A script with an external src: nothing is written.
ScriptExternal ==
  /\ pc = "scripts" /\ idx <= Len(Scripts)
  /\ doc[scriptNode].attr # <<>>
  /\ IsExternal(doc[scriptNode].attr)
  /\ idx' = idx + 1
  /\ UNCHANGED <<doc, options, pc, links, doms, source, lineOffset, sourceMapGenerator, retVal>>

\* A script with any other src: an import of the joined path.
ScriptLocal ==
  /\ pc = "scripts" /\ idx <= Len(Scripts)
  /\ doc[scriptNode].attr # <<>>
  /\ ~IsExternal(doc[scriptNode].attr)
  /\ source' = source \o ImportStatement(Join(Dirname(currentFilePath), doc[scriptNode].attr))
  /\ lineOffset' = lineOffset + 2
  /\ idx' = idx + 1
  /\ UNCHANGED <<doc, options, pc, links, doms, sourceMapGenerator, retVal>>

\* An inline script: its tokens are mapped and its text is written.
ScriptInline ==
  /\ pc = "scripts" /\ idx <= Len(Scripts)
  /\ doc[scriptNode].attr = <<>>
  /\ ~InlineThrows(doc, scriptNode)
  /\ sourceMapGenerator' =
       [created  |-> TRUE,
        mappings |-> sourceMapGenerator.mappings \o Mappings(doc, scriptNode, lineOffset)]
  /\ source' = source \o <<NL>> \o doc[scriptNode].body \o <<NL>>
  /\ lineOffset' = lineOffset + InlineLines(doc, scriptNode)
  /\ idx' = idx + 1
  /\ UNCHANGED <<doc, options, pc, links, doms, retVal>>

\* An inline script with no child node throws when its location is read,
\* before anything is mapped; one with no end tag throws when the offset is
\* advanced, after its text is written.  process() then returns nothing.
ScriptThrow ==
  /\ pc = "scripts" /\ idx <= Len(Scripts)
  /\ doc[scriptNode].attr = <<>>
  /\ InlineThrows(doc, scriptNode)
  /\ IF HasChild(doc, scriptNode)
     THEN /\ sourceMapGenerator' =
               [created  |-> TRUE,
                mappings |-> sourceMapGenerator.mappings
                               \o Mappings(doc, scriptNode, lineOffset)]
          /\ source' = source \o <<NL>> \o doc[scriptNode].body \o <<NL>>
     ELSE /\ sourceMapGenerator' = [sourceMapGenerator EXCEPT !.created = TRUE]
          /\ source' = source
  /\ pc' = "thrown"
  /\ UNCHANGED <<doc, options, links, doms, lineOffset, idx, retVal>>

\* The end of scripts(): the source, and the source map when there is one.
Return ==
  /\ pc = "scripts" /\ idx > Len(Scripts)
  /\ retVal' =
       [source |-> source, sourceMap |-> FinalSourceMap(sourceMapGenerator, doc)]
  /\ pc' = "done"
  /\ UNCHANGED <<doc, options, links, doms, source, lineOffset, idx, sourceMapGenerator>>

Next ==
  \/ RunLinks
  \/ RunDomModule
  \/ ScriptExternal
  \/ ScriptLocal
  \/ ScriptInline
  \/ ScriptThrow
  \/ Return

Spec == Init /\ [][Next]_vars

----------------------------------------------------------------------------
(* What the claims speak of *)

\* The paths of the import statements of a text, in order.
RECURSIVE ImportPaths(_)
ImportPaths(t) ==
  IF Len(t) < 2 THEN <<>>
  ELSE IF t[1] = "import " /\ t[2] = SQ
       THEN LET rest == SubSeq(t, 3, Len(t))
                close == CHOOSE j \in 1..Len(rest) :
                           rest[j] = SQ /\ \A k \in 1..(j - 1) : rest[k] # SQ
            IN  <<SubSeq(rest, 1, close - 1)>>
                  \o ImportPaths(SubSeq(rest, close + 1, Len(rest)))
       ELSE ImportPaths(Tail(t))

\* How many times the element e stands in t.
Count(t, e) == Cardinality({i \in 1..Len(t) : t[i] = e})

\* The text `value` starts at this line (from 1) and column (from 0) of t.
StartsAt(t, line, column, value) ==
  \E i \in 1..Len(t) :
    LET before == SubSeq(t, 1, i - 1)
    IN  /\ LineBreaks(before) = line - 1
        /\ Width(SubSeq(before, LastBreak(before) + 1, Len(before))) = column
        /\ i + Len(value) - 1 <= Len(t)
        /\ SubSeq(t, i, i + Len(value) - 1) = value

\* A single-quoted string literal read from the text after its opening
\* quote: a backslash takes the next character with it (and swallows a line
\* break), a bare line break is an error, a bare quote ends the literal.
RECURSIVE DecodeFrom(_, _)
DecodeFrom(t, acc) ==
  IF t = <<>> THEN [ok |-> FALSE, value |-> acc, rest |-> <<>>]
  ELSE IF t[1] = SQ THEN [ok |-> TRUE, value |-> acc, rest |-> Tail(t)]
  ELSE IF t[1] = NL THEN [ok |-> FALSE, value |-> acc, rest |-> t]
  ELSE IF t[1] = BS
       THEN IF Len(t) < 2 THEN [ok |-> FALSE, value |-> acc, rest |-> <<>>]
            ELSE DecodeFrom(SubSeq(t, 3, Len(t)),
                            IF t[2] = NL THEN acc ELSE Append(acc, t[2]))
  ELSE DecodeFrom(Tail(t), Append(acc, t[1]))

\* The literal of the register(...) or toBody(...) statement of a text.
Literal(t) ==
  LET i == CHOOSE j \in 1..Len(t) : t[j] \in {Register, ToBody}
  IN  DecodeFrom(SubSeq(t, i + 2, Len(t)), <<>>)

IsInline(n) == n.tag = "script" /\ n.attr = <<>>
IsLocal(n) == n.tag = "script" /\ n.attr # <<>> /\ ~IsExternal(n.attr)
IsExternalScript(n) == n.tag = "script" /\ IsExternal(n.attr)

\* A link the options, or its empty href, keep out of the output.
Ignored(n) ==
  \/ n.attr = <<>>
  \/ n.attr \in options.ignoreLinks
  \/ \E partial \in options.ignoreLinksFromPartialMatches : Includes(n.attr, partial)

LinkIndices == {i \in 1..Len(doc) : doc[i].tag = "link"}
KeptLinks == {i \in LinkIndices : ~Ignored(doc[i])}

\* The i-th smallest member of a set of numbers.
RECURSIVE Sorted(_)
Sorted(S) ==
  IF S = {} THEN <<>>
  ELSE LET m == CHOOSE x \in S : \A y \in S : x <= y
       IN  <<m>> \o Sorted(S \ {m})

LinksDone == pc \in {"domModule", "scripts", "done", "thrown"}
DomsDone == pc \in {"scripts", "done", "thrown"}

----------------------------------------------------------------------------
\* C1: when process() has returned, every mapping of the source map has a
\* generated line (from 1) and column (from 0) at which the text of its
\* token starts in the returned code.
C1_GeneratedPositionAccurate ==
  pc = "done" =>
    \A k \in 1..Len(retVal.sourceMap.mappings) :
      LET m == retVal.sourceMap.mappings[k]
      IN  StartsAt(retVal.source, m.generated.line, m.generated.column, m.name)

\* C2: once domModule() has run, the markup of every script with an
\* external src stands inside the statement domModule() wrote, and the
\* returned code holds no import of its src.
C2_ExternalScriptRetained ==
  /\ DomsDone =>
       \A i \in 1..Len(doc) :
         IsExternalScript(doc[i]) => Includes(doms.source, Serialize(doc[i]))
  /\ pc = "done" =>
       \A i \in 1..Len(doc) :
         IsExternalScript(doc[i]) =>
           \A k \in 1..Len(ImportPaths(retVal.source)) :
             ImportPaths(retVal.source)[k]
               \notin {doc[i].attr, Join(Dirname(currentFilePath), doc[i].attr)}

C4_PathResolution ==
  LinksDone =>
    LET kept == Sorted(KeptLinks)
    IN  ImportPaths(links.source) =
          [k \in 1..Len(kept) |->
             LET href == doc[kept[k]].attr
             IN  IF \E e \in options.ignorePathReWrite : Includes(href, e)
                 THEN href
                 ELSE <<"/", "p", "/">> \o href]

C4_Witness ==
  /\ pc = "done"
  /\ options.ignoreLinks # {}
  /\ \E p \in {ImportPaths(links.source)[k] : k \in 1..Len(ImportPaths(links.source))} :
       p = <<"a", "b">>
  /\ \E p \in {ImportPaths(links.source)[k] : k \in 1..Len(ImportPaths(links.source))} :
       p = <<"/", "p", "/", "c", NL>>

\* The markup of the whole document after the removals of domModule().
FullMarkup ==
  Minify(Concat([i \in 1..Len(doc) |->
                   IF Removed(doc[i]) THEN <<>> ELSE Serialize(doc[i])]))

\* C5: domModule() returns empty text and 0 lines when the minified markup
\* is empty; otherwise one statement and 3 lines: a register(...) when a
\* dom-module node exists, else a toBody(...) holding the minified markup
\* of the whole document.  It never writes both, nor more than one.
C5_ComponentDetection ==
  DomsDone =>
    LET minimized == Minify(SerializeHtml(doc))
        domModules == Len(QueryAll(doc, "dom-module"))
        registers == Count(doms.source, Register)
        toBodies == Count(doms.source, ToBody)
    IN  /\ minimized = <<>> => doms = [source |-> <<>>, lineCount |-> 0]
        /\ minimized # <<>> =>
             /\ doms.lineCount = 3
             /\ registers + toBodies = 1
             /\ Count(doms.source, RequireLine[1]) = 1
             /\ registers = 1 <=> domModules > 0
             /\ domModules = 0 =>
                  Includes(doms.source,
                           <<ToBody, SQ>> \o EscapeQuotes(FullMarkup) \o <<SQ, ");", NL>>)

C5_Witness ==
  /\ pc = "scripts"
  /\ Len(QueryAll(doc, "dom-module")) = 2
  /\ Count(doms.source, Register) = 1
  /\ doms.lineCount = 3

\* The lines the script node j costs the running offset, and the offset
\* before node i: 2 for each kept link, 3 for a registration, and the costs
\* of the script nodes before i.
Cost(j) ==
  IF IsLocal(doc[j]) THEN 2
  ELSE IF IsInline(doc[j]) THEN 2 + (EndTagLine(doc, j) - StartTagLine(doc, j))
  ELSE 0

RECURSIVE CostBefore(_)
CostBefore(i) == IF i <= 1 THEN 0 ELSE Cost(i - 1) + CostBefore(i - 1)

OffsetBefore(i) ==
  2 * Cardinality(KeptLinks) + (IF doms.source # <<>> THEN 3 ELSE 0) + CostBefore(i)

\* The generated lines of the mappings of the inline scripts from node i on.
RECURSIVE ExpectedLines(_)
ExpectedLines(i) ==
  IF i > Len(doc) THEN <<>>
  ELSE (IF IsInline(doc[i])
        THEN [k \in 1..Len(Tokenize(doc[i].body)) |->
                Tokenize(doc[i].body)[k].line + OffsetBefore(i)]
        ELSE <<>>) \o ExpectedLines(i + 1)

\* C6: when process() has returned, the generated line of every mapping of
\* every inline script is the line of the token inside the script plus the
\* line costs of all that was written before the script.
C6_LineCountConservation ==
  pc = "done" =>
    [k \in 1..Len(retVal.sourceMap.mappings) |->
       retVal.sourceMap.mappings[k].generated.line] = ExpectedLines(1)

C6_Witness ==
  /\ pc = "done"
  /\ links.lineCount = 2
  /\ \E i \in 1..Len(doc) : IsInline(doc[i]) /\ doc[i].tagBreaks = 1 /\ i < Len(doc)
  /\ Len(retVal.sourceMap.mappings) = 3
  /\ retVal.sourceMap.mappings[3].generated.line = 7

\* C7: the value process() returns holds a source map exactly when the
\* document has a script with no src (or an empty one), and the source map
\* then carries the whole input text as the content of currentFilePath.
C7_SourceMapPresence ==
  pc = "done" =>
    /\ retVal.sourceMap.present <=> \E i \in 1..Len(doc) : IsInline(doc[i])
    /\ retVal.sourceMap.present =>
         /\ retVal.sourceMap.sources = <<currentFilePath>>
         /\ retVal.sourceMap.sourcesContent = <<Content(doc)>>
    /\ ~retVal.sourceMap.present => retVal.sourceMap = NoSourceMap

C7_Witness ==
  /\ pc = "done"
  /\ retVal.sourceMap.present
  /\ Len(retVal.sourceMap.mappings) > 0
  /\ \E i \in 1..Len(doc) : IsExternalScript(doc[i])
  /\ \E i \in 1..Len(doc) : IsLocal(doc[i])

\* C8: process() never throws, whatever nodes the document lacks.
C8_NoCrash == pc # "thrown"

\* C9: after links(), after domModule() and after each script node, the
\* running line offset is the number of line breaks of the text written.
C9_OffsetEqualsLinesWritten ==
  /\ pc = "domModule" => links.lineCount = LineBreaks(links.source)
  /\ pc = "scripts" => lineOffset = LineBreaks(source)

\* C10: the string literal of the statement domModule() writes is well
\* formed, ends at its closing quote, and decodes to the minified markup.
C10_LiteralRoundTrip ==
  (DomsDone /\ doms.source # <<>>) =>
    /\ Literal(doms.source).ok
    /\ Literal(doms.source).value = Minify(SerializeHtml(doc))
    /\ Literal(doms.source).rest = <<");", NL>>

====
